---- MODULE Spec2Model ----
(***************************************************************************)
(* Test-Store-Data-Analysis: the scraping and cleaning pipeline.           *)
(*                                                                         *)
(*   link_extraction.py    ProductLinkExtraction  (listing-page walk)      *)
(*   product_scraper.py    ProductInfoScraper     (product scrape loop)    *)
(*   data_preprocessor.py  DataPreprocessor       (clean_data)             *)
(*                                                                         *)
(* Three specifications share the variables:                               *)
(*   Spec         one run of the data extraction stage (link walk, then    *)
(*                the scrape loop), followed by at most one standalone     *)
(*                re-run of the product scraper;                           *)
(*   SpecDetails  get_product_details applied to every product page of a   *)
(*                bounded family;                                          *)
(*   SpecClean    preprocess_dataset applied to every raw log of a bounded *)
(*                family.                                                  *)
(*                                                                         *)
(* A log file is modelled by its sequence of data rows; an absent file and *)
(* an empty file both hold no rows.                                        *)
(***************************************************************************)
EXTENDS Naturals, Sequences, FiniteSets, TLC

VARIABLES
    clear,          \* configs.clear_data
    site,           \* the listing chain: site[i] = number of products on page i
    linksLog,       \* rows of the links log (links_data_path)
    rawLog,         \* rows of the raw records log (scraped_data_path)
    cleanFile,      \* content of the cleaned dataset file (processed_data_path)
    pc,             \* position of the running program
    entry,          \* entry point of the current run: "none", "stage", "scraper"
    page_url,       \* argument of the current get_all_product_links call
    page_num,       \* argument of the current get_all_product_links call
    product_links,  \* scrape_products: the list read from the links log
    idx,            \* scrape_products: number of links fully processed
    html,           \* SpecDetails: the product page handed to get_product_details
    fetched,        \* history: listing URLs requested by the walk, in order
    productFetched, \* history: product URLs requested by the current scrape run
    links0,         \* history: the links log before the run
    raw0,           \* history: the raw records log before the run
    clean0,         \* history: the cleaned dataset file before the run
    rawAtStart,     \* history: the raw log when the current scraper was built
    firstRun        \* history: outcome of the first scrape run once a re-run began

vars == <<clear, site, linksLog, rawLog, cleanFile, pc, entry, page_url, page_num,
          product_links, idx, html, fetched, productFetched, links0,
          raw0, clean0, rawAtStart, firstRun>>

(***************************************************************************)
(* Bounds of the model.                                                    *)
(***************************************************************************)
MaxPages == 2   \* longest listing chain
MaxItems == 2   \* most products on one listing page
MaxPre == 1     \* most rows a log holds before the run
MaxRaw == 2     \* most records of a raw log handed to clean_data

RootUrl == 1    \* configs.root_url: page i of the chain has URL i
NoUrl == 0      \* no element / no href where a URL is looked up (None in the code)

\* A text is a sequence of one-character strings; "" is <<>>.
NoElem == <<"<no element>">>     \* css_first(selector) is None
NoAttr == <<"<no attribute>">>   \* the element has no such attribute
Raise == <<"<raise>">>           \* the evaluation raises

(***************************************************************************)
(* Helpers on sequences.                                                   *)
(***************************************************************************)
Prefix(s, n) == SubSeq(s, 1, n)

IsPrefixOf(s, t) == Len(s) <= Len(t) /\ s = SubSeq(t, 1, Len(s))

RECURSIVE Flatten(_)
Flatten(ss) == IF ss = <<>> THEN <<>> ELSE Head(ss) \o Flatten(Tail(ss))

(***************************************************************************)
(* The store: a chain of listing pages.  Page i (URL i) lists site[i]      *)
(* products and carries a "next" control to page i+1 unless it is last.    *)
(***************************************************************************)
Sites == UNION {[1..l -> 0..MaxItems] : l \in 1..MaxPages}

ProductUrl(p, j) == p * 10 + j

\* href of "ul.page-numbers li a.next" on the page at url, NoUrl without one
NextHref(s, url) == IF url < Len(s) THEN url + 1 ELSE NoUrl

\* the product hrefs of "ul.products li" on the page at url
PageItems(s, url) == [j \in 1..s[url] |-> ProductUrl(url, j)]

\* The page as served with the anchor of product b (if b > 0) lacking its href
Damaged(items, b) == [j \in 1..Len(items) |-> IF j = b THEN NoUrl ELSE items[j]]

(***************************************************************************)
(* The durable logs (src/utils/basic_utils.py, not among the sources).     *)
(***************************************************************************)
\* write_to_csv(path, row): append one row, never rewrite earlier rows
write_to_csv(log, row) == Append(log, row)

\* read_csv(path): the rows in file order
read_csv(log) == log

\* __init__ of both components: "if self.clear: if exists(path): truncate"
MutClearAlways(flag, log) == <<>>

MutClearNever(flag, log) == log

ClearLog(flag, log) == IF flag THEN <<>> ELSE log

(***************************************************************************)
(* ProductLinkExtraction.get_item_urls: one row per "ul.products li", in   *)
(* page order, each written as soon as it is found.  items[j] = NoUrl      *)
(* stands for a product whose anchor has no href: the loop raises there,   *)
(* with the rows before it already written.                                *)
(***************************************************************************)
LinkRow(pg_no, pg_url, product_url) ==
    [page_number |-> pg_no, page_url |-> pg_url, product_url |-> product_url]

RECURSIVE WriteItemUrls(_, _, _, _)
WriteItemUrls(log, items, pg_url, pg_no) ==
    IF items = <<>> THEN [raised |-> FALSE, log |-> log]
    ELSE IF Head(items) = NoUrl THEN [raised |-> TRUE, log |-> log]
    ELSE WriteItemUrls(write_to_csv(log, LinkRow(pg_no, pg_url, Head(items))),
                       Tail(items), pg_url, pg_no)

\* the rows of a page collected in memory instead of written as they are found
MutGetItemUrlsBuffered(log, items, pg_url, pg_no) ==
    [raised |-> WriteItemUrls(log, items, pg_url, pg_no).raised, log |-> log]

get_item_urls(log, items, pg_url, pg_no) == WriteItemUrls(log, items, pg_url, pg_no)

\* lines 125-133: whether the walk recurses, and with which arguments
MutNextCallStops(next_href, pg_no) ==
    [recurse |-> FALSE, page_url |-> next_href, page_num |-> pg_no + 1]

NextCall(next_href, pg_no) ==
    [recurse |-> next_href # NoUrl, page_url |-> next_href, page_num |-> pg_no + 1]

\* rows a traversal writes for a page whose product URLs are given
RowsOfPage(items, pg_no, pg_url) ==
    [j \in 1..Len(items) |-> LinkRow(pg_no, pg_url, items[j])]

(***************************************************************************)
(* ProductInfoScraper.get_product_details.  A product page is given by the *)
(* elements its selectors find:                                            *)
(*   title     h1.product_title             text or NoElem                 *)
(*   prices    p.price bdi                  texts of all matches           *)
(*   stock     p.stock                      text or NoElem                 *)
(*   sku       span.sku                     text or NoElem                 *)
(*   category  a[rel='tag']                 text or NoElem                 *)
(*   paras     div#tab-description p        texts of all matches           *)
(*   image     div...gallery__wrapper a     href, NoAttr or NoElem         *)
(*   rows      div#tab-additional_information tr   [th, td], text or NoElem*)
(***************************************************************************)
\* fetch(css_selector, "first"): the text of the first match, "" without one
MutFetchFirstRaises(el) == IF el # NoElem THEN el ELSE Raise

FetchFirst(el) == IF el # NoElem THEN el ELSE <<>>

\* fetch(css_selector, "link"): attrs["href"] of the first match, "" without one
FetchLink(el) == IF el = NoElem THEN <<>> ELSE IF el = NoAttr THEN Raise ELSE el

\* fetch("p.price bdi", "all")[-1].text(strip=True)
LastPrice(prices) == IF prices = <<>> THEN Raise ELSE prices[Len(prices)]

\* fetch("p.stock") if fetch("p.stock", "f_obj") is not None else ""
StockText(el) == IF el # NoElem THEN FetchFirst(el) ELSE <<>>

\* "\n".join(texts)
RECURSIVE JoinLines(_)
JoinLines(texts) ==
    IF texts = <<>> THEN <<>>
    ELSE IF Len(texts) = 1 THEN texts[1]
    ELSE texts[1] \o <<"\n">> \o JoinLines(Tail(texts))

\* A dict is the sequence of its <<key, value>> items in insertion order.
DictKeys(d) == {d[i][1] : i \in 1..Len(d)}

DictGet(d, k) == LET i == CHOOSE i \in 1..Len(d) : d[i][1] = k IN d[i][2]

DictSet(d, k, v) ==
    IF k \in DictKeys(d)
    THEN [i \in 1..Len(d) |-> IF d[i][1] = k THEN <<k, v>> ELSE d[i]]
    ELSE Append(d, <<k, v>>)

\* lines 102-108: {th text or "-": td p text or "" for info in more_info}
RECURSIVE AdditionalDetails(_, _)
AdditionalDetails(d, rows) ==
    IF rows = <<>> THEN d
    ELSE AdditionalDetails(
            DictSet(d,
                    IF Head(rows).th # NoElem THEN Head(rows).th ELSE <<"-">>,
                    IF Head(rows).td # NoElem THEN Head(rows).td ELSE <<>>),
            Tail(rows))

\* lines 110-129: the ProductInfo built from the page, as asdict gives it
ProductInfo(h, product_url, now) ==
    [title              |-> FetchFirst(h.title),
     price              |-> LastPrice(h.prices),
     in_stocks          |-> StockText(h.stock),
     sku                |-> FetchFirst(h.sku),
     category           |-> FetchFirst(h.category),
     description        |-> JoinLines(h.paras),
     product_image_link |-> FetchLink(h.image),
     additional_info    |-> AdditionalDetails(<<>>, h.rows),
     product_link       |-> product_url,
     scrape_ts          |-> now]

\* get_product_details: the record is written last, inside the try; nothing is
\* written when building it raises
TextFields == {"title", "price", "in_stocks", "sku", "category", "description",
               "product_image_link"}

Raises(r) == \E f \in TextFields : r[f] = Raise

\* the row written before the record is complete
MutGetProductDetailsWritesFirst(log, h, product_url, now) ==
    LET r == ProductInfo(h, product_url, now)
    IN [raised |-> Raises(r), log |-> write_to_csv(log, r)]

get_product_details(log, h, product_url, now) ==
    LET r == ProductInfo(h, product_url, now)
    IN IF Raises(r)
       THEN [raised |-> TRUE, log |-> log]
       ELSE [raised |-> FALSE, log |-> write_to_csv(log, r)]

\* datetime.now().strftime("%Y-%m-%d %H:%M:%S")
Now == <<"2", "0", "2", "4">>

EmptyFrame == [columns |-> <<>>, rows |-> <<>>]

\* the cleaned dataset file: absent, or holding a frame
NoFile == [exists |-> FALSE, frame |-> EmptyFrame]

FileOf(f) == [exists |-> TRUE, frame |-> f]

(***************************************************************************)
(* Sample texts and product pages.                                         *)
(***************************************************************************)
Pound == "#"    \* the pound sign U+00A3, written # to keep the module ASCII

InStock5 == <<"5", " ", "i", "n", " ", "s", "t", "o", "c", "k">>

FullPage ==
    [title    |-> <<"T">>,
     prices   |-> << <<Pound, "9">>, <<Pound, "5">> >>,
     stock    |-> InStock5,
     sku      |-> <<"A">>,
     category |-> <<"c", "|", "d">>,
     paras    |-> << <<"p">>, <<"q">> >>,
     image    |-> <<"i">>,
     rows     |-> << [th |-> <<"S", "i", "z", "e">>, td |-> <<"M">>] >>]

NoPricePage == [FullPage EXCEPT !.prices = <<>>]

\* the pages the store serves during a run of the stage
StorePages == {FullPage, NoPricePage}

\* rows left in the logs by an earlier run, over products since delisted
OldLinks == [j \in 1..MaxPre |-> LinkRow(1, RootUrl, ProductUrl(9, j))]

OldRecords == [j \in 1..MaxPre |-> ProductInfo(FullPage, ProductUrl(9, j), Now)]

NoRun == [outcome |-> "none", written |-> 0]

(***************************************************************************)
(* Spec: the data extraction stage.                                        *)
(***************************************************************************)
Init ==
    /\ clear \in BOOLEAN
    /\ site \in Sites
    /\ linksLog \in {Prefix(OldLinks, n) : n \in 0..MaxPre}
    /\ rawLog \in {Prefix(OldRecords, n) : n \in 0..MaxPre}
    /\ cleanFile = NoFile
    /\ clean0 = NoFile
    /\ pc = "idle"
    /\ entry = "none"
    /\ page_url = NoUrl
    /\ page_num = 0
    /\ product_links = <<>>
    /\ idx = 0
    /\ html = FullPage
    /\ fetched = <<>>
    /\ productFetched = <<>>
    /\ links0 = linksLog
    /\ raw0 = rawLog
    /\ rawAtStart = rawLog
    /\ firstRun = NoRun

\* a stage that builds both components before the walk starts
MutMainBuildsScraperFirst ==
    /\ pc = "idle"
    /\ linksLog' = ClearLog(clear, linksLog)
    /\ rawLog' = ClearLog(clear, rawLog)
    /\ page_url' = RootUrl
    /\ page_num' = 1
    /\ pc' = "walking"
    /\ entry' = "stage"
    /\ UNCHANGED <<clear, site, cleanFile, clean0, product_links, idx, html,
                   fetched, productFetched, links0, raw0, rawAtStart, firstRun>>

\* DataExtractionPipeline.main up to the first get_all_product_links call:
\* ProductLinkExtraction() clears the links log when configured,
\* scrape_product_links starts the walk at the root URL with page number 1
DataExtractionMain ==
    /\ pc = "idle"
    /\ linksLog' = ClearLog(clear, linksLog)
    /\ page_url' = RootUrl
    /\ page_num' = 1
    /\ pc' = "walking"
    /\ entry' = "stage"
    /\ UNCHANGED <<clear, site, rawLog, cleanFile, clean0, product_links, idx, html,
                   fetched, productFetched, links0, raw0, rawAtStart, firstRun>>

\* One call of get_all_product_links: request the page (httpx.get may raise),
\* write its links (get_item_urls may raise part-way), then recurse into the
\* "next" href or return
GetAllProductLinks ==
    /\ pc = "walking"
    /\ \E transport_ok \in BOOLEAN, b \in 0..site[page_url] :
        LET r == get_item_urls(linksLog, Damaged(PageItems(site, page_url), b),
                               page_url, page_num)
            nxt == NextCall(NextHref(site, page_url), page_num)
        IN /\ fetched' = Append(fetched, page_url)
           /\ IF ~transport_ok
              THEN /\ pc' = "walk_failed"
                   /\ UNCHANGED <<linksLog, page_url, page_num>>
              ELSE /\ linksLog' = r.log
                   /\ IF r.raised
                      THEN pc' = "walk_failed" /\ UNCHANGED <<page_url, page_num>>
                      ELSE IF nxt.recurse
                      THEN /\ page_url' = nxt.page_url
                           /\ page_num' = nxt.page_num
                           /\ pc' = "walking"
                      ELSE pc' = "walk_done" /\ UNCHANGED <<page_url, page_num>>
    /\ UNCHANGED <<clear, site, rawLog, cleanFile, clean0, entry, product_links, idx, html,
                   productFetched, links0, raw0, rawAtStart, firstRun>>

\* ProductInfoScraper(): clears the raw records log when configured.  In the
\* stage it is built only after scrape_product_links returned; once the stage
\* has ended the scraper may be run again on its own.
ProductInfoScraperInit ==
    /\ \/ /\ pc = "walk_done"
          /\ UNCHANGED <<entry, firstRun>>
       \/ /\ pc \in {"scrape_done", "scrape_failed"}
          /\ entry = "stage"
          /\ entry' = "scraper"
          /\ firstRun' = [outcome |-> pc, written |-> idx]
    /\ rawAtStart' = rawLog
    /\ rawLog' = ClearLog(clear, rawLog)
    /\ productFetched' = <<>>
    /\ pc' = "scraper_ready"
    /\ UNCHANGED <<clear, site, linksLog, cleanFile, clean0, page_url, page_num,
                   product_links, idx, html, fetched, links0, raw0>>

\* scrape_products, lines 150-151: read the links log
ScrapeProductsRead ==
    /\ pc = "scraper_ready"
    /\ product_links' = read_csv(linksLog)
    /\ idx' = 0
    /\ pc' = IF read_csv(linksLog) = <<>> THEN "scrape_done" ELSE "scraping"
    /\ UNCHANGED <<clear, site, linksLog, rawLog, cleanFile, clean0, entry, page_url,
                   page_num, html, fetched, productFetched, links0, raw0,
                   rawAtStart, firstRun>>

\* scrape_products, one iteration of the loop of lines 160-174
ScrapeProductsStep ==
    /\ pc = "scraping"
    /\ \E transport_ok \in BOOLEAN, h \in StorePages :
        LET product_url == product_links[idx + 1].product_url
            r == get_product_details(rawLog, h, product_url, Now)
        IN /\ productFetched' = Append(productFetched, product_url)
           /\ IF ~transport_ok
              THEN /\ pc' = "scrape_failed"
                   /\ UNCHANGED <<rawLog, idx>>
              ELSE /\ rawLog' = r.log
                   /\ IF r.raised
                      THEN pc' = "scrape_failed" /\ UNCHANGED idx
                      ELSE /\ idx' = idx + 1
                           /\ pc' = IF idx + 1 = Len(product_links)
                                    THEN "scrape_done" ELSE "scraping"
    /\ UNCHANGED <<clear, site, linksLog, cleanFile, clean0, entry, page_url, page_num,
                   product_links, html, fetched, links0, raw0, rawAtStart,
                   firstRun>>

Next ==
    \/ DataExtractionMain
    \/ GetAllProductLinks
    \/ ProductInfoScraperInit
    \/ ScrapeProductsRead
    \/ ScrapeProductsStep

Spec == Init /\ [][Next]_vars

(***************************************************************************)
(* What a run is expected to leave, stated from the store and the logs.    *)
(***************************************************************************)
ChainUrls(s, k) == [i \in 1..k |-> i]

\* the link rows of pages 1..k of the chain, page by page
WalkRows(s, k) == Flatten([i \in 1..k |-> RowsOfPage(PageItems(s, i), i, i)])

UrlsOf(links) == [i \in 1..Len(links) |-> links[i].product_url]

RecordsFor(links) ==
    [i \in 1..Len(links) |-> ProductInfo(FullPage, links[i].product_url, Now)]

KeptLinks == IF clear THEN <<>> ELSE links0

KeptRaw == IF clear THEN <<>> ELSE rawAtStart

WalkCompleted == pc \in {"walk_done", "scraper_ready", "scraping",
                         "scrape_done", "scrape_failed"}

(***************************************************************************)
(* C1.  A walk over a chain of L pages in which every fetch and parse      *)
(* succeeds requests exactly the L pages, once each and in chain order,    *)
(* appends the links of exactly those pages, and ends at the page without  *)
(* a "next" control: while it is still walking fewer than L pages have     *)
(* been requested and the next one requested is the next of the chain;     *)
(* once it has returned no further page is requested.                      *)
(***************************************************************************)
C1_WalkVisitsChain ==
    /\ pc = "walking" =>
          /\ Len(fetched) < Len(site)
          /\ fetched = ChainUrls(site, Len(fetched))
          /\ page_url = Len(fetched) + 1
          /\ page_num = Len(fetched) + 1
    /\ WalkCompleted =>
          /\ fetched = ChainUrls(site, Len(site))
          /\ linksLog = KeptLinks \o WalkRows(site, Len(site))

C1_Witness ==
    /\ pc = "walk_done"
    /\ Len(site) = MaxPages
    /\ \A i \in 1..Len(site) : site[i] > 0

(***************************************************************************)
(* C2.  After a completed traversal the links log holds the rows it held   *)
(* before (none of them when the clear flag is on), unchanged and first,   *)
(* followed by the N rows of the traversal; after a completed scrape loop  *)
(* the raw records log holds the rows it held when the scraper was built   *)
(* (none when the flag is on) followed by one record per link.             *)
(***************************************************************************)
C2_AppendOrClear ==
    /\ WalkCompleted =>
          /\ linksLog = (IF clear THEN <<>> ELSE links0) \o WalkRows(site, Len(site))
          /\ Len(linksLog) = (IF clear THEN 0 ELSE Len(links0))
                                + Len(WalkRows(site, Len(site)))
    /\ pc = "scrape_done" =>
          /\ rawLog = (IF clear THEN <<>> ELSE rawAtStart) \o RecordsFor(product_links)
          /\ Len(rawLog) = (IF clear THEN 0 ELSE Len(rawAtStart)) + Len(product_links)

C2_Witness ==
    /\ pc = "scrape_done"
    /\ ~clear
    /\ Len(links0) > 0
    /\ Len(rawAtStart) > 0
    /\ Len(linksLog) > Len(links0)
    /\ Len(rawLog) > Len(rawAtStart)

C2_WitnessClear ==
    /\ pc = "scrape_done"
    /\ clear
    /\ Len(links0) > 0
    /\ Len(raw0) > 0
    /\ Len(rawLog) > 0

(***************************************************************************)
(* C3.  Whenever the walk is about to request a page, the links of every   *)
(* page requested before are in the links log; a step of the walk only     *)
(* extends the log; and when the request or the parse of page k fails the  *)
(* walk has requested pages 1..k once each, the log still starts with the  *)
(* kept rows and the links of pages 1..k-1, and nothing is requested and   *)
(* the stage goes no further afterwards.                                   *)
(***************************************************************************)
C3_LinksBeforeNextFetch ==
    pc = "walking" => linksLog = KeptLinks \o WalkRows(site, Len(fetched))

C3_FailureKeepsLinks ==
    pc = "walk_failed" =>
        /\ Len(fetched) >= 1
        /\ fetched = ChainUrls(site, Len(fetched))
        /\ IsPrefixOf(KeptLinks \o WalkRows(site, Len(fetched) - 1), linksLog)

C3_WalkStep ==
    /\ pc = "walking" => IsPrefixOf(linksLog, linksLog')
    /\ pc = "walk_failed" => pc' = "walk_failed" /\ fetched' = fetched
                                /\ linksLog' = linksLog

C3_AppendImmediatelyAbortOnFailure ==
    /\ [](C3_LinksBeforeNextFetch /\ C3_FailureKeepsLinks)
    /\ [][C3_WalkStep]_vars

C3_Witness ==
    /\ pc = "walk_failed"
    /\ Len(fetched) = 2
    /\ site[1] > 0
    /\ Len(linksLog) > Len(KeptLinks) + site[1]

(***************************************************************************)
(* C4.  At every point of the scrape loop the links are those of the links *)
(* log in log order, the records appended by the run are the records of    *)
(* the first idx links, one each and in order, and the product pages       *)
(* requested are those of the same links, plus the failing one when the    *)
(* loop has aborted; when the loop completes idx is the whole log.         *)
(***************************************************************************)
C4_RecordsFollowLinks ==
    pc \in {"scraping", "scrape_done", "scrape_failed"} =>
        /\ product_links = linksLog
        /\ idx <= Len(product_links)
        /\ rawLog = KeptRaw \o RecordsFor(Prefix(product_links, idx))
        /\ pc = "scraping" =>
              /\ idx < Len(product_links)
              /\ productFetched = UrlsOf(Prefix(product_links, idx))
        /\ pc = "scrape_done" =>
              /\ idx = Len(product_links)
              /\ productFetched = UrlsOf(product_links)
        /\ pc = "scrape_failed" =>
              /\ idx < Len(product_links)
              /\ productFetched = UrlsOf(Prefix(product_links, idx + 1))

C4_Witness ==
    /\ pc = "scrape_failed"
    /\ idx >= 1
    /\ Len(product_links) > idx + 1

(***************************************************************************)
(* C10.  A re-run of the scraper starts at the first row of the links log  *)
(* whatever the raw records log holds: its requests are those of the first *)
(* idx links.  After a first run that aborted having written k records, a  *)
(* complete second run over N links leaves exactly N records when the      *)
(* clear flag is on, and the earlier rows, the k records and then the N    *)
(* records (the first k links recorded twice) when it is off.              *)
(***************************************************************************)
C10_NoResumeState ==
    (entry = "scraper" /\ firstRun.outcome = "scrape_failed") =>
        /\ pc = "scraping" => productFetched = UrlsOf(Prefix(product_links, idx))
        /\ pc = "scrape_done" =>
              /\ productFetched = UrlsOf(linksLog)
              /\ clear => rawLog = RecordsFor(linksLog)
              /\ ~clear =>
                    /\ rawLog = raw0
                                  \o RecordsFor(Prefix(linksLog, firstRun.written))
                                  \o RecordsFor(linksLog)
                    /\ Len(rawLog) = Len(raw0) + firstRun.written + Len(linksLog)

C10_Witness ==
    /\ entry = "scraper"
    /\ pc = "scrape_done"
    /\ firstRun.outcome = "scrape_failed"
    /\ firstRun.written >= 1
    /\ ~clear
    /\ raw0 = <<>>

C10_WitnessClear ==
    /\ entry = "scraper"
    /\ pc = "scrape_done"
    /\ firstRun.outcome = "scrape_failed"
    /\ firstRun.written >= 1
    /\ clear
    /\ Len(rawLog) > firstRun.written

(***************************************************************************)
(* C11.  In the data extraction stage, until the walk has ended well no    *)
(* product page is requested and the raw records log is what it was before *)
(* the stage; a step that requests a product page or changes the raw log   *)
(* happens only after the walk has requested every page of the chain and   *)
(* written their links; and when the walk fails the stage ends there, the  *)
(* raw log unchanged whatever the clear flag.                              *)
(***************************************************************************)
C11_RawLogUntouchedBeforeWalkEnds ==
    pc \in {"idle", "walking", "walk_done", "walk_failed"} =>
        /\ rawLog = raw0
        /\ productFetched = <<>>

C11_ScraperStep ==
    /\ (rawLog' # rawLog \/ productFetched' # productFetched) =>
          /\ pc \notin {"idle", "walking", "walk_failed"}
          /\ fetched = ChainUrls(site, Len(site))
          /\ linksLog = KeptLinks \o WalkRows(site, Len(site))
    /\ pc = "walk_failed" => pc' = "walk_failed" /\ rawLog' = rawLog
                                /\ productFetched' = productFetched

C11_ScrapeOnlyAfterWalk ==
    /\ []C11_RawLogUntouchedBeforeWalkEnds
    /\ [][C11_ScraperStep]_vars

C11_Witness ==
    /\ pc = "walk_failed"
    /\ entry = "stage"
    /\ clear
    /\ Len(raw0) > 0
    /\ Len(fetched) = 2
    /\ rawLog = raw0

C11_WitnessScraped ==
    /\ pc = "scrape_done"
    /\ entry = "stage"
    /\ clear
    /\ Len(raw0) > 0
    /\ Len(productFetched) > 0
    /\ rawLog # raw0

(***************************************************************************)
(* SpecDetails: get_product_details on every page of a bounded family.     *)
(***************************************************************************)
SizeM == [th |-> <<"S", "i", "z", "e">>, td |-> <<"M">>]

SizeL == [th |-> <<"S", "i", "z", "e">>, td |-> <<"L">>]

BlankRow == [th |-> NoElem, td |-> NoElem]

DetailPages ==
    [title    : {NoElem, <<"T">>},
     prices   : {<<>>, << <<Pound, "9">> >>, << <<Pound, "9">>, <<Pound, "5">> >>},
     stock    : {NoElem, InStock5},
     sku      : {NoElem, <<"A">>},
     category : {NoElem, <<"c", "|", "d">>},
     paras    : {<<>>, << <<"p">> >>, << <<"p">>, <<"q">> >>},
     image    : {NoElem, NoAttr, <<"i">>},
     rows     : {<<>>, <<SizeM>>, <<BlankRow>>, <<SizeM, SizeL>>}]

InitDetails ==
    /\ html \in DetailPages
    /\ rawLog \in {Prefix(OldRecords, n) : n \in 0..MaxPre}
    /\ raw0 = rawLog
    /\ rawAtStart = rawLog
    /\ pc = "details_ready"
    /\ clear = FALSE
    /\ site = [i \in 1..1 |-> 1]
    /\ linksLog = <<LinkRow(1, RootUrl, ProductUrl(1, 1))>>
    /\ links0 = linksLog
    /\ product_links = linksLog
    /\ cleanFile = NoFile
    /\ clean0 = NoFile
    /\ entry = "scraper"
    /\ page_url = NoUrl
    /\ page_num = 0
    /\ idx = 0
    /\ fetched = <<>>
    /\ productFetched = <<>>
    /\ firstRun = NoRun

\* one call get_product_details(product_url, headers) on the page html
GetProductDetails ==
    /\ pc = "details_ready"
    /\ \E transport_ok \in BOOLEAN :
        LET product_url == product_links[idx + 1].product_url
            r == get_product_details(rawLog, html, product_url, Now)
        IN /\ productFetched' = Append(productFetched, product_url)
           /\ IF ~transport_ok
              THEN pc' = "details_fetch_failed" /\ UNCHANGED rawLog
              ELSE /\ rawLog' = r.log
                   /\ pc' = IF r.raised THEN "details_raised" ELSE "details_written"
    /\ UNCHANGED <<clear, site, linksLog, cleanFile, clean0, entry, page_url, page_num,
                   product_links, idx, html, fetched, links0, raw0, rawAtStart,
                   firstRun>>

NextDetails == GetProductDetails

SpecDetails == InitDetails /\ [][NextDetails]_vars

LastRecord == rawLog[Len(rawLog)]

(***************************************************************************)
(* C7 as stated.  An absent optional element (stock status, category,      *)
(* description, image link, additional information) gives the empty string *)
(* (the empty mapping) in a record that is written, whereas an absent      *)
(* title or sku element makes the extraction raise with no record written. *)
(***************************************************************************)
C7_TitleOrSkuAbsentRaises ==
    pc \in {"details_written", "details_raised"} =>
        ((html.title = NoElem \/ html.sku = NoElem) =>
            (pc = "details_raised" /\ rawLog = raw0))

(***************************************************************************)
(* C7 as amended.  Every field is checked for presence on its own: an      *)
(* absent title, sku, stock status, category, description, image link or   *)
(* additional information element gives the empty string (the empty        *)
(* mapping) and the record is still written; the extraction raises, with   *)
(* no record written, exactly when the page has no price element or its    *)
(* image anchor has no href.                                               *)
(***************************************************************************)
C7_AbsentFieldsAreEmpty ==
    /\ pc \in {"details_written", "details_raised"} =>
          (pc = "details_raised" <=> (html.prices = <<>> \/ html.image = NoAttr))
    /\ pc \in {"details_raised", "details_fetch_failed"} => rawLog = raw0
    /\ pc = "details_written" =>
          /\ Len(rawLog) = Len(raw0) + 1
          /\ Prefix(rawLog, Len(raw0)) = raw0
          /\ html.title = NoElem => LastRecord.title = <<>>
          /\ html.sku = NoElem => LastRecord.sku = <<>>
          /\ html.stock = NoElem => LastRecord.in_stocks = <<>>
          /\ html.category = NoElem => LastRecord.category = <<>>
          /\ html.paras = <<>> => LastRecord.description = <<>>
          /\ html.image = NoElem => LastRecord.product_image_link = <<>>
          /\ html.rows = <<>> => LastRecord.additional_info = <<>>
          /\ html.title # NoElem => LastRecord.title = html.title
          /\ html.sku # NoElem => LastRecord.sku = html.sku
          /\ LastRecord.price = html.prices[Len(html.prices)]

C7_Witness ==
    /\ pc = "details_written"
    /\ html.title = NoElem
    /\ html.sku = NoElem
    /\ html.stock = NoElem
    /\ html.category = NoElem
    /\ html.paras = <<>>
    /\ html.image = NoElem
    /\ html.rows = <<>>
    /\ Len(rawLog) = Len(raw0) + 1

(***************************************************************************)
(* DataPreprocessor.  Texts are compared and rewritten character by        *)
(* character; column labels are texts.                                     *)
(***************************************************************************)
ColTitle == <<"t", "i", "t", "l", "e">>

ColPrice == <<"p", "r", "i", "c", "e">>

ColInStocks == <<"i", "n", "_", "s", "t", "o", "c", "k", "s">>

ColSku == <<"s", "k", "u">>

ColCategory == <<"c", "a", "t", "e", "g", "o", "r", "y">>

ColDescription == <<"d", "e", "s", "c", "r", "i", "p", "t", "i", "o", "n">>

ColImage == <<"p", "r", "o", "d", "u", "c", "t", "_", "i", "m", "a", "g", "e", "_", "l", "i", "n", "k">>

ColInfo == <<"a", "d", "d", "i", "t", "i", "o", "n", "a", "l", "_", "i", "n", "f", "o">>

ColLink == <<"p", "r", "o", "d", "u", "c", "t", "_", "l", "i", "n", "k">>

ColTs == <<"s", "c", "r", "a", "p", "e", "_", "t", "s">>

ColPriceInPounds == <<"p", "r", "i", "c", "e", "_", "i", "n", "_", "p", "o", "u", "n", "d", "s">>

TestProduct == <<"t", "e", "s", "t", "-", "p", "r", "o", "d", "u", "c", "t">>

InStockSuffix == <<" ", "i", "n", " ", "s", "t", "o", "c", "k">>

SuffixX == <<"_", "x">>

SuffixY == <<"_", "y">>

UpperCase == <<"A", "B", "C", "D", "E", "F", "G", "H", "I", "J", "K", "L", "M", "N", "O", "P", "Q", "R", "S", "T", "U", "V", "W", "X", "Y", "Z">>

LowerCase == <<"a", "b", "c", "d", "e", "f", "g", "h", "i", "j", "k", "l", "m", "n", "o", "p", "q", "r", "s", "t", "u", "v", "w", "x", "y", "z">>

Digits == <<"0", "1", "2", "3", "4", "5", "6", "7", "8", "9">>

\* the frame pd.read_csv builds: the columns of the raw records log, in the
\* field order of ProductInfo
RawColumns == <<ColTitle, ColPrice, ColInStocks, ColSku, ColCategory, ColDescription,
                ColImage, ColInfo, ColLink, ColTs>>

\* lines 74-80
rearranged_col_list ==
    <<ColSku, ColTitle, ColPriceInPounds, ColCategory, ColDescription, ColInStocks,
      ColImage, <<"s", "i", "z", "e">>, <<"c", "o", "l", "o", "r">>,
      <<"a", "c", "t", "i", "v", "i", "t", "y">>, <<"g", "e", "n", "d", "e", "r">>, <<"m", "a", "t", "e", "r", "i", "a", "l">>, <<"p", "a", "t", "t", "e", "r", "n">>,
      <<"s", "t", "r", "a", "p">>, <<"s", "t", "y", "l", "e">>, ColLink, ColTs>>

\* str.lower()
LowerChar(c) ==
    IF \E i \in 1..Len(UpperCase) : UpperCase[i] = c
    THEN LowerCase[CHOOSE i \in 1..Len(UpperCase) : UpperCase[i] = c]
    ELSE c

Lower(text) == [i \in 1..Len(text) |-> LowerChar(text[i])]

\* str.replace(pat, rep) for a literal, non-empty pat: every occurrence, left to right
RECURSIVE ReplaceAll(_, _, _)
ReplaceAll(text, pat, rep) ==
    IF Len(text) < Len(pat) THEN text
    ELSE IF SubSeq(text, 1, Len(pat)) = pat
    THEN rep \o ReplaceAll(SubSeq(text, Len(pat) + 1, Len(text)), pat, rep)
    ELSE <<Head(text)>> \o ReplaceAll(Tail(text), pat, rep)

IsDigit(c) == \E i \in 1..Len(Digits) : Digits[i] = c

DigitVal(c) == (CHOOSE i \in 1..Len(Digits) : Digits[i] = c) - 1

RECURSIVE NatVal(_)
NatVal(ds) == IF ds = <<>> THEN 0
              ELSE NatVal(SubSeq(ds, 1, Len(ds) - 1)) * 10 + DigitVal(ds[Len(ds)])

\* A cell of a frame: a string, a float (held in hundredths), a timestamp, or NaN.
Str(text) == [kind |-> "str", text |-> text, num |-> 0]

Float(hundredths) == [kind |-> "float", text |-> <<>>, num |-> hundredths]

Timestamp(text) == [kind |-> "datetime", text |-> text, num |-> 0]

UrlCell(u) == [kind |-> "str", text |-> <<"u", "r", "l">>, num |-> u]

NaN == [kind |-> "nan", text |-> <<>>, num |-> 0]

\* read_csv turns an empty field into NaN
CsvCell(text) == IF text = <<>> THEN NaN ELSE Str(text)

DotPositions(text) == {i \in 1..Len(text) : text[i] = "."}

\* astype("float32") on a string: digits with at most one point, at least one digit
FloatParses(text) ==
    /\ \A i \in 1..Len(text) : IsDigit(text[i]) \/ text[i] = "."
    /\ Cardinality(DotPositions(text)) <= 1
    /\ \E i \in 1..Len(text) : IsDigit(text[i])

\* the value in hundredths (fraction digits past the second are dropped)
FloatValue(text) ==
    IF DotPositions(text) = {} THEN NatVal(text) * 100
    ELSE LET d == CHOOSE i \in DotPositions(text) : TRUE
             frac == SubSeq(text \o <<"0", "0">>, d + 1, d + 2)
         IN NatVal(SubSeq(text, 1, d - 1)) * 100 + NatVal(frac)

\* astype("datetime64[ns]") on a string: a date written in digits, "-", ":" and " "
TimestampParses(text) ==
    /\ text # <<>>
    /\ IsDigit(text[1])
    /\ \A i \in 1..Len(text) : IsDigit(text[i]) \/ text[i] \in {"-", ":", " "}

(***************************************************************************)
(* Frames: the column labels in order (duplicates allowed, as in pandas)   *)
(* and the rows, each the sequence of its cells in column order.           *)
(***************************************************************************)
Indexes(seq) == [i \in 1..Len(seq) |-> i]

Positions(f, label) == {i \in 1..Len(f.columns) : f.columns[i] = label}

\* the one column with this label
Col(f, label) == CHOOSE i \in Positions(f, label) : TRUE

HasDuplicateLabels(f) ==
    \E i, j \in 1..Len(f.columns) : i < j /\ f.columns[i] = f.columns[j]

\* pd.read_csv(self.scraped_data_path)
ReadRawFrame(raw) ==
    [columns |-> RawColumns,
     rows |-> [i \in 1..Len(raw) |->
                 <<CsvCell(raw[i].title), CsvCell(raw[i].price),
                   CsvCell(raw[i].in_stocks), CsvCell(raw[i].sku),
                   CsvCell(raw[i].category), CsvCell(raw[i].description),
                   CsvCell(raw[i].product_image_link), Str(raw[i].additional_info),
                   UrlCell(raw[i].product_link), CsvCell(raw[i].scrape_ts)>>]]

\* read_csv gives a column the object dtype when some field of it is neither
\* empty nor a number; the .str accessor raises on any other dtype
HasStrAccessor(f, label) ==
    \/ f.rows = <<>>
    \/ \E i \in 1..Len(f.rows) :
          LET c == f.rows[i][Col(f, label)]
          IN c.kind = "str" /\ ~FloatParses(c.text)

\* line 49: df[df["sku"] != "test-product"]
MutKeepTestProduct(f) == f

FilterTestProduct(f) ==
    [f EXCEPT !.rows = SelectSeq(f.rows,
                                 LAMBDA r : r[Col(f, ColSku)] # Str(TestProduct))]

MapColumn(f, label, Op(_)) ==
    [f EXCEPT !.rows = [i \in 1..Len(f.rows) |->
                          [f.rows[i] EXCEPT ![Col(f, label)] = Op(@)]]]

StrReplaceCell(c, pat, rep) ==
    IF c.kind = "str" THEN Str(ReplaceAll(c.text, pat, rep)) ELSE c

\* lines 52-54
StripTexts(f) ==
    MapColumn(
        MapColumn(
            MapColumn(f, ColPrice, LAMBDA c : StrReplaceCell(c, <<Pound>>, <<>>)),
            ColInStocks, LAMBDA c : StrReplaceCell(c, InStockSuffix, <<>>)),
        ColCategory, LAMBDA c : StrReplaceCell(c, <<"|">>, <<" ">>))

FloatCastable(c) == c.kind = "nan" \/ (c.kind = "str" /\ FloatParses(c.text))

TimestampCastable(c) == c.kind = "nan" \/ (c.kind = "str" /\ TimestampParses(c.text))

AsFloat(c) == IF c.kind = "str" THEN Float(FloatValue(c.text)) ELSE c

AsTimestamp(c) == IF c.kind = "str" THEN Timestamp(c.text) ELSE c

\* lines 57-60: whether df.astype succeeds, and its result
CanCast(f) ==
    \A i \in 1..Len(f.rows) :
        /\ FloatCastable(f.rows[i][Col(f, ColPrice)])
        /\ FloatCastable(f.rows[i][Col(f, ColInStocks)])
        /\ TimestampCastable(f.rows[i][Col(f, ColTs)])

Cast(f) ==
    MapColumn(MapColumn(MapColumn(f, ColPrice, AsFloat), ColInStocks, AsFloat),
              ColTs, AsTimestamp)

\* json.loads(text.replace("'", "\"")) of the str() of a dict: the quotes that
\* delimit the keys and values become JSON's, and a quote inside a key or a
\* value ends its string early, which json.loads rejects
HasQuote(text) == \E i \in 1..Len(text) : text[i] \in {"'", "\""}

Decodes(d) == \A i \in 1..Len(d) : ~HasQuote(d[i][1]) /\ ~HasQuote(d[i][2])

\* lines 65-67: the decoded dict with its values as cells, and "sku" set last
InfoDict(row, f) ==
    LET d == row[Col(f, ColInfo)].text
    IN DictSet([i \in 1..Len(d) |-> <<d[i][1], Str(d[i][2])>>],
               ColSku, row[Col(f, ColSku)])

\* pd.DataFrame(info_list): one column per key, in order of first appearance
RECURSIVE KeysInOrder(_, _)
KeysInOrder(dicts, acc) ==
    IF dicts = <<>> THEN acc
    ELSE KeysInOrder(
            Tail(dicts),
            acc \o SelectSeq([i \in 1..Len(Head(dicts)) |-> Head(dicts)[i][1]],
                             LAMBDA k : \A j \in 1..Len(acc) : acc[j] # k))

DataFrameOfDicts(dicts) ==
    LET cols == KeysInOrder(dicts, <<>>)
    IN [columns |-> cols,
        rows |-> [i \in 1..Len(dicts) |->
                    [c \in 1..Len(cols) |->
                        IF cols[c] \in DictKeys(dicts[i])
                        THEN DictGet(dicts[i], cols[c]) ELSE NaN]]]

LowerColumns(f) == [f EXCEPT !.columns = [i \in 1..Len(f.columns) |-> Lower(@[i])]]

\* lines 63-71
InfoFrame(f) ==
    LowerColumns(DataFrameOfDicts([i \in 1..Len(f.rows) |-> InfoDict(f.rows[i], f)]))

\* pd.merge(left, right, on=key, how="inner") raises unless key labels exactly
\* one column of each frame
CanMerge(left, right, key) ==
    Cardinality(Positions(left, key)) = 1 /\ Cardinality(Positions(right, key)) = 1

\* Labels other than the key that both frames carry get the suffixes _x and _y;
\* each left row, in order, is joined to every right row with its key, in order.
Merge(left, right, key) ==
    LET kl == Col(left, key)
        kr == Col(right, key)
        both == {left.columns[i] : i \in 1..Len(left.columns)}
                   \cap {right.columns[i] : i \in 1..Len(right.columns)}
        rpos == SelectSeq(Indexes(right.columns), LAMBDA i : i # kr)
        lcols == [i \in 1..Len(left.columns) |->
                    IF left.columns[i] \in both /\ i # kl
                    THEN left.columns[i] \o SuffixX ELSE left.columns[i]]
        rcols == [p \in 1..Len(rpos) |->
                    IF right.columns[rpos[p]] \in both
                    THEN right.columns[rpos[p]] \o SuffixY ELSE right.columns[rpos[p]]]
        Joined(l) ==
            LET matches == SelectSeq(right.rows, LAMBDA r : r[kr] = l[kl])
            IN [m \in 1..Len(matches) |->
                   l \o [p \in 1..Len(rpos) |-> matches[m][rpos[p]]]]
    IN [columns |-> lcols \o rcols,
        rows |-> Flatten([i \in 1..Len(left.rows) |-> Joined(left.rows[i])])]

\* .drop(columns=label): raises when no column has the label
DropColumn(f, label) ==
    LET keep == SelectSeq(Indexes(f.columns), LAMBDA i : f.columns[i] # label)
    IN [columns |-> [p \in 1..Len(keep) |-> f.columns[keep[p]]],
        rows |-> [i \in 1..Len(f.rows) |-> [p \in 1..Len(keep) |-> f.rows[i][keep[p]]]]]

\* .rename(columns={old: new})
RenameColumn(f, old, new) ==
    [f EXCEPT !.columns = [i \in 1..Len(f.columns) |-> IF @[i] = old THEN new ELSE @[i]]]

\* .reindex(columns=target): raises on duplicate labels; a label the frame
\* lacks gives a column of NaN
Reindex(f, target) ==
    [columns |-> target,
     rows |-> [i \in 1..Len(f.rows) |->
                 [c \in 1..Len(target) |->
                     IF Positions(f, target[c]) # {}
                     THEN f.rows[i][Col(f, target[c])] ELSE NaN]]]

DropDuplicates(f, label) ==
    LET k == Col(f, label)
        keep == SelectSeq(Indexes(f.rows),
                          LAMBDA i : \A j \in 1..(i - 1) : f.rows[j][k] # f.rows[i][k])
    IN [f EXCEPT !.rows = [p \in 1..Len(keep) |-> f.rows[keep[p]]]]

Raised(error) == [raised |-> TRUE, error |-> error, frame |-> EmptyFrame]

\* DataPreprocessor.clean_data
clean_data(df) ==
    LET kept == FilterTestProduct(df)
        typed == Cast(StripTexts(kept))
        info_df == InfoFrame(typed)
        merged == Merge(typed, info_df, ColSku)
        renamed == RenameColumn(DropColumn(merged, ColInfo), ColPrice, ColPriceInPounds)
    IN IF \E c \in {ColPrice, ColInStocks, ColCategory} : ~HasStrAccessor(df, c)
       THEN Raised("AttributeError: .str on a non-string column")
       ELSE IF ~CanCast(StripTexts(kept))
       THEN Raised("ValueError: could not convert")
       ELSE IF \E i \in 1..Len(typed.rows) : ~Decodes(typed.rows[i][Col(typed, ColInfo)].text)
       THEN Raised("JSONDecodeError")
       ELSE IF ~CanMerge(typed, info_df, ColSku)
       THEN Raised("KeyError/ValueError: merge key sku")
       ELSE IF Positions(merged, ColInfo) = {}
       THEN Raised("KeyError: additional_info not found in axis")
       ELSE IF HasDuplicateLabels(renamed)
       THEN Raised("ValueError: cannot reindex on an axis with duplicate labels")
       ELSE [raised |-> FALSE, error |-> "",
             frame |-> DropDuplicates(Reindex(renamed, rearranged_col_list), ColSku)]

\* DataPreprocessor.preprocess_dataset: the file is written after clean_data
\* returned; pd.read_csv raises on a log without rows
\* the output file opened for writing before the data is cleaned
MutPreprocessOpensOutputFirst(raw, file) ==
    LET r == IF raw = <<>> THEN Raised("EmptyDataError")
             ELSE clean_data(ReadRawFrame(raw))
    IN [raised |-> r.raised, file |-> FileOf(r.frame)]

preprocess_dataset(raw, file) ==
    LET r == IF raw = <<>> THEN Raised("EmptyDataError")
             ELSE clean_data(ReadRawFrame(raw))
    IN [raised |-> r.raised, file |-> IF r.raised THEN file ELSE FileOf(r.frame)]

(***************************************************************************)
(* SpecClean: preprocess_dataset on every raw records log of a bounded     *)
(* family.                                                                 *)
(***************************************************************************)
KeySize == <<"S", "i", "z", "e">>

InfoNone == <<>>

InfoSizeColor == << <<KeySize, <<"M">>>>, <<<<"C", "o", "l", "o", "r">>, <<"R", "e", "d">>>> >>

InfoLowerSize == << <<<<"s", "i", "z", "e">>, <<"L">>>> >>

InfoTitle == << <<<<"T", "i", "t", "l", "e">>, <<"X">>>> >>

InfoSku == << <<<<"S", "K", "U">>, <<"z">>>> >>

InfoQuote == << <<KeySize, <<"M", "'", "s">>>> >>

\* a record as the scraper writes it: kind 1 a product with every element,
\* kind 2 one with only title, price and sku
RawRecord(sku, kind, info) ==
    [title              |-> IF kind = 1 THEN <<"T">> ELSE <<"U">>,
     price              |-> IF kind = 1 THEN <<Pound, "9">> ELSE <<Pound, "5", ".", "5">>,
     in_stocks          |-> IF kind = 1 THEN InStock5 ELSE <<>>,
     sku                |-> sku,
     category           |-> IF kind = 1 THEN <<"c", "|", "d">> ELSE <<>>,
     description        |-> IF kind = 1 THEN <<"p">> ELSE <<>>,
     product_image_link |-> IF kind = 1 THEN <<"i">> ELSE <<>>,
     additional_info    |-> info,
     product_link       |-> ProductUrl(1, kind),
     scrape_ts          |-> IF kind = 1 THEN Now ELSE <<"2", "0", "2", "5">>]

GoodRecords ==
    {RawRecord(sku, kind, info) :
        sku \in {<<"A">>, <<"B">>}, kind \in {1, 2},
        info \in {InfoNone, InfoSizeColor, InfoLowerSize, InfoTitle, InfoSku}}

TestRecords == {RawRecord(TestProduct, 1, info) : info \in {InfoNone, InfoSizeColor}}

BadPrice == [RawRecord(<<"A">>, 1, InfoNone) EXCEPT !.price = <<Pound, "x">>]

BadStock == [RawRecord(<<"A">>, 1, InfoNone) EXCEPT !.in_stocks = <<"O", "u", "t">>]

BadTimestamp == [RawRecord(<<"A">>, 1, InfoNone) EXCEPT !.scrape_ts = <<"n", "/", "a">>]

BadInfo == RawRecord(<<"A">>, 1, InfoQuote)

RawRecords == GoodRecords \cup TestRecords
                 \cup {BadPrice, BadStock, BadTimestamp, BadInfo}

RawLogs == UNION {[1..n -> RawRecords] : n \in 0..MaxRaw}

\* a cleaned dataset left by an earlier run
OldFile == FileOf(clean_data(ReadRawFrame(<<RawRecord(<<"B">>, 1, InfoNone)>>)).frame)

InitClean ==
    /\ rawLog \in RawLogs
    /\ cleanFile \in {NoFile, OldFile}
    /\ clean0 = cleanFile
    /\ raw0 = rawLog
    /\ rawAtStart = rawLog
    /\ pc = "clean_ready"
    /\ clear = FALSE
    /\ site = [i \in 1..1 |-> 0]
    /\ linksLog = <<>>
    /\ links0 = <<>>
    /\ product_links = <<>>
    /\ entry = "none"
    /\ page_url = NoUrl
    /\ page_num = 0
    /\ idx = 0
    /\ html = FullPage
    /\ fetched = <<>>
    /\ productFetched = <<>>
    /\ firstRun = NoRun

\* DataPreprocessingPipeline.main: DataPreprocessor().preprocess_dataset()
PreprocessDataset ==
    /\ pc = "clean_ready"
    /\ LET r == preprocess_dataset(rawLog, cleanFile)
       IN /\ cleanFile' = r.file
          /\ pc' = IF r.raised THEN "clean_failed" ELSE "clean_done"
    /\ UNCHANGED <<clear, site, linksLog, rawLog, clean0, entry, page_url, page_num,
                   product_links, idx, html, fetched, productFetched, links0, raw0,
                   rawAtStart, firstRun>>

NextClean == PreprocessDataset

SpecClean == InitClean /\ [][NextClean]_vars

(***************************************************************************)
(* What the cleaned dataset is expected to hold, stated from the raw log.  *)
(***************************************************************************)
Cleaned == cleanFile.frame

SkuOfRow(i) == Cleaned.rows[i][Col(Cleaned, ColSku)]

RowsOfSku(sku) == {i \in 1..Len(Cleaned.rows) : SkuOfRow(i) = Str(sku)}

\* the records clean_data keeps: not the test product, first of their sku
Retained == {i \in 1..Len(rawLog) :
                /\ rawLog[i].sku # TestProduct
                /\ \A j \in 1..(i - 1) : rawLog[j].sku # rawLog[i].sku}

HasLaterDuplicate(i) == \E j \in (i + 1)..Len(rawLog) : rawLog[j].sku = rawLog[i].sku

AttributeColumns == SubSeq(rearranged_col_list, 8, 15)

IsAttributeColumn(label) == \E c \in 1..Len(AttributeColumns) : AttributeColumns[c] = label

BaseLabels == {RawColumns[c] : c \in 1..Len(RawColumns)} \cup {ColPriceInPounds}

\* the value a record's own additional_info gives an attribute column
OwnAttribute(rec, label) ==
    LET d == rec.additional_info
        hits == {i \in 1..Len(d) : Lower(d[i][1]) = label}
    IN IF hits = {} THEN NaN ELSE Str(d[CHOOSE i \in hits : TRUE][2])

\* the cleaned row made of a record's own fields, in the order of
\* rearranged_col_list
OwnRow(rec) ==
    <<Str(rec.sku),
      CsvCell(rec.title),
      AsFloat(StrReplaceCell(CsvCell(rec.price), <<Pound>>, <<>>)),
      StrReplaceCell(CsvCell(rec.category), <<"|">>, <<" ">>),
      CsvCell(rec.description),
      AsFloat(StrReplaceCell(CsvCell(rec.in_stocks), InStockSuffix, <<>>)),
      CsvCell(rec.product_image_link)>>
    \o [c \in 1..Len(AttributeColumns) |-> OwnAttribute(rec, AttributeColumns[c])]
    \o <<UrlCell(rec.product_link), AsTimestamp(CsvCell(rec.scrape_ts))>>

\* no record kept carries an attribute whose lowercase name is a base column
PlainKeys ==
    \A i \in 1..Len(rawLog) :
        rawLog[i].sku # TestProduct =>
            \A k \in DictKeys(rawLog[i].additional_info) : Lower(k) \notin BaseLabels

\* every value of the kept records parses and decodes
ValuesParse ==
    LET df == ReadRawFrame(rawLog)
        stripped == StripTexts(FilterTestProduct(df))
    IN /\ Retained # {}
       /\ \A c \in {ColPrice, ColInStocks, ColCategory} : HasStrAccessor(df, c)
       /\ CanCast(stripped)
       /\ \A i \in 1..Len(stripped.rows) :
             Decodes(stripped.rows[i][Col(stripped, ColInfo)].text)

(***************************************************************************)
(* C5.  When clean_data succeeds no sku occurs twice in the output, and    *)
(* for every sku that two or more kept raw records share the output has    *)
(* exactly one row, all of whose fields (base fields and attribute         *)
(* columns) are those of the first record of that sku in input order.      *)
(***************************************************************************)
C5_DedupKeepsFirst ==
    pc = "clean_done" =>
        /\ \A i, j \in 1..Len(Cleaned.rows) : i # j => SkuOfRow(i) # SkuOfRow(j)
        /\ \A i \in Retained :
              HasLaterDuplicate(i) =>
                  /\ Cardinality(RowsOfSku(rawLog[i].sku)) = 1
                  /\ \A r \in RowsOfSku(rawLog[i].sku) : Cleaned.rows[r] = OwnRow(rawLog[i])

\* the same law over the raw logs in which no attribute name collides with a
\* base column
C5_DedupKeepsFirstPlainKeys == PlainKeys => C5_DedupKeepsFirst

C5_DuplicateCleaned ==
    /\ pc = "clean_done"
    /\ PlainKeys
    /\ \E i \in Retained :
          /\ HasLaterDuplicate(i)
          /\ \E j \in (i + 1)..Len(rawLog) :
                rawLog[j].sku = rawLog[i].sku /\ OwnRow(rawLog[j]) # OwnRow(rawLog[i])

(***************************************************************************)
(* C6.  No row of the cleaned output has the sku "test-product".           *)
(***************************************************************************)
C6_NoTestProduct ==
    pc = "clean_done" =>
        \A i \in 1..Len(Cleaned.rows) : SkuOfRow(i) # Str(TestProduct)

C6_Witness ==
    /\ pc = "clean_done"
    /\ Len(rawLog) = MaxRaw
    /\ rawLog[1].sku = TestProduct
    /\ Len(Cleaned.rows) >= 1

(***************************************************************************)
(* C8.  Whenever the values of the kept records parse, clean_data gives    *)
(* an output in which, for every kept record and every key k of its        *)
(* additional_info whose lowercase form is an attribute column, the row of *)
(* the record's sku has the mapping's value for k in column lower(k), also *)
(* when other records carry other keys or keys differing in case only.     *)
(***************************************************************************)
C8_AttributesExpanded ==
    (pc \in {"clean_done", "clean_failed"} /\ ValuesParse /\ PlainKeys) =>
        /\ pc = "clean_done"
        /\ \A i \in Retained :
              \A k \in DictKeys(rawLog[i].additional_info) :
                  IsAttributeColumn(Lower(k)) =>
                      /\ RowsOfSku(rawLog[i].sku) # {}
                      /\ \A r \in RowsOfSku(rawLog[i].sku) :
                            Cleaned.rows[r][Col(Cleaned, Lower(k))]
                                = Str(DictGet(rawLog[i].additional_info, k))

\* the same, over the raw logs in which no two keys differ in case only
CaseConsistentKeys ==
    \A i, j \in 1..Len(rawLog) :
        (rawLog[i].sku # TestProduct /\ rawLog[j].sku # TestProduct) =>
            \A k \in DictKeys(rawLog[i].additional_info) :
                \A l \in DictKeys(rawLog[j].additional_info) :
                    Lower(k) = Lower(l) => k = l

C8_AttributesExpandedSameCase == CaseConsistentKeys => C8_AttributesExpanded

(***************************************************************************)
(* C9.  When preprocess_dataset raises, whatever step failed, the cleaned  *)
(* dataset file is exactly what it was before the run.                     *)
(***************************************************************************)
C9_FailureWritesNothing ==
    /\ pc = "clean_failed" => cleanFile = clean0
    /\ (/\ pc \in {"clean_done", "clean_failed"}
        /\ \E i \in 1..Len(rawLog) :
              rawLog[i] \in {BadPrice, BadStock, BadTimestamp, BadInfo})
           => pc = "clean_failed"

C9_Witness ==
    /\ pc = "clean_failed"
    /\ clean0 = OldFile
    /\ rawLog = <<RawRecord(<<"B">>, 2, InfoSizeColor), BadPrice>>

\* the failures the claim lists: stock, timestamp, additional_info, the join
C9_WitnessStock == pc = "clean_failed" /\ clean0 = OldFile /\ rawLog = <<BadStock>>

C9_WitnessTimestamp == pc = "clean_failed" /\ clean0 = OldFile /\ rawLog = <<BadTimestamp>>

C9_WitnessInfo == pc = "clean_failed" /\ clean0 = OldFile /\ rawLog = <<BadInfo>>

C9_WitnessJoin ==
    /\ pc = "clean_failed"
    /\ clean0 = OldFile
    /\ rawLog = <<RawRecord(<<"A">>, 1, InfoSku)>>

(***************************************************************************)
(* C12.  When clean_data succeeds, every kept record has a row whose base  *)
(* fields (title, price, category, description, stock, image link and      *)
(* product link) are those of the record's own raw fields, whatever        *)
(* attribute names the additional_info mappings of the batch carry, names  *)
(* such as "Title" or "SKU" included.                                      *)
(***************************************************************************)
BaseFieldPositions ==
    {c \in 1..Len(rearranged_col_list) :
        rearranged_col_list[c] \in {ColTitle, ColPriceInPounds, ColCategory,
                                    ColDescription, ColInStocks, ColImage, ColLink}}

C12_BaseFieldsOwn ==
    pc = "clean_done" =>
        \A i \in Retained :
            /\ RowsOfSku(rawLog[i].sku) # {}
            /\ \A r \in RowsOfSku(rawLog[i].sku) :
                  \A c \in BaseFieldPositions :
                      Cleaned.rows[r][c] = OwnRow(rawLog[i])[c]

\* the same law over the raw logs in which no attribute name collides with a
\* base column
C12_BaseFieldsOwnPlainKeys == PlainKeys => C12_BaseFieldsOwn

C12_PlainKeysCleaned ==
    /\ pc = "clean_done"
    /\ PlainKeys
    /\ Len(Cleaned.rows) = MaxRaw
    /\ \E i \in Retained : rawLog[i].additional_info # InfoNone

====
